---- MODULE Spec2Model ----
(***************************************************************************)
(* Model of the WASI host harness of src/main.rs: create_wasi_env, main    *)
(* and start.  One action per statement of start that can fail, return or  *)
(* change observable state; the guest's run inside start_func.call is a    *)
(* sequence of guest steps (writes to the captured streams, calls of host  *)
(* imports) ended by a return (Ok) or a trap (Err).                        *)
(***************************************************************************)
EXTENDS Integers, Sequences, FiniteSets, TLC

\* Bounds of the model.
MaxWrites == 3        \* bytes the guest writes to stdout and stderr together
MaxImportCalls == 1   \* host imports the guest calls during one run

\* Small input sets.
Bytes == {104, 195, 169}      \* "h", and the two bytes of U+00E9
TrapMessages == {"divide by zero", "unreachable"}
ArgValues == {7}

Streams == {"stdin", "stdout", "stderr"}

VARIABLES
    pc,             \* position in main/start
    wasm,           \* the embedded module, include_bytes!(..) (input)
    wasi_exports,   \* keys the runtime's WASI import object provides (input)
    pipes,          \* the three Pipe::channel() pairs
    imports,        \* the imports! table, as collected into `extend`
    import_object,  \* the import table handed to Instance::new
    thread_status,  \* wasi_env.data(&store).thread status
    result,         \* result of start_func.call
    std_out,        \* String std_out
    std_err,        \* String std_err
    output,         \* lines the host process printed (println!)
    ret,            \* what start returned
    main_ret,       \* what main returned
    start_calls,    \* invocations of _start, with their arguments
    cleanup_calls,  \* invocations of wasi_env.cleanup
    import_calls,   \* host import invocations made by the guest
    written,        \* bytes the guest wrote, per stream (history)
    failed_at,      \* the statement whose error or panic ended start or main (history)
    trace           \* harness steps taken so far, in order (history)

vars == <<pc, wasm, wasi_exports, pipes, imports, import_object, thread_status,
          result, std_out, std_err, output, ret, main_ret, start_calls,
          cleanup_calls, import_calls, written, failed_at, trace>>

----------------------------------------------------------------------------
\* Import tables: ordered collections of ((namespace, name), extern) entries.

Key(ns, name) == <<ns, name>>

K_a6 == Key("Integers", "a6: func(x: s32) -> ()")
K_a == Key("strings", "a: func(x: string) -> ()")
K_b == Key("strings", "b: func() -> string")
K_c == Key("strings", "c: func(a: string, b: string) -> string")
K_f32 == Key("rust", "wasmImportFloat32Param")
K_thread_spawn == Key("wasi", "thread-spawn")
K_fd_write == Key("wasi_snapshot_preview1", "fd_write")
K_absent == Key("env", "absent")

HostFn(k, label) == [key |-> k, ext |-> [origin |-> "host", label |-> label]]
WasiFn(k) == [key |-> k, ext |-> [origin |-> "wasi", label |-> ""]]

\* imports! { ... } followed by imports.into_iter().collect()
CustomImports ==
    << HostFn(K_a6, "a6: Hello from rust "),
       HostFn(K_a, "a: Hello from rust "),
       HostFn(K_b, "b: Hello from rust "),
       HostFn(K_c, "c: Hello from rust "),
       HostFn(K_f32, "Hello from rust "),
       HostFn(K_thread_spawn, "Hello from rust ") >>

\* Keys the runtime may provide, one of them colliding with the custom table.
WasiKeys == {K_thread_spawn, K_fd_write}

Keys(table) == {table[i].key : i \in 1..Len(table)}

Has(table, k) == k \in Keys(table)

Lookup(table, k) == table[CHOOSE i \in 1..Len(table) : table[i].key = k].ext

\* Imports::define: insert into the map, replacing an existing entry.
define_keep_existing(table, e) ==
    IF Has(table, e.key) THEN table ELSE Append(table, e)

define(table, e) ==
    IF Has(table, e.key)
    THEN [i \in 1..Len(table) |->
            IF table[i].key = e.key THEN e ELSE table[i]]
    ELSE Append(table, e)

\* Imports::extend: define every entry of the iterator, in order.
RECURSIVE import_object_extend(_, _)
import_object_extend(table, ext) ==
    IF ext = <<>> THEN table
    ELSE import_object_extend(define(table, Head(ext)), Tail(ext))

RECURSIVE SetToSeq(_)
SetToSeq(S) ==
    IF S = {} THEN <<>>
    ELSE LET x == CHOOSE y \in S : TRUE IN <<x>> \o SetToSeq(S \ {x})

\* The import object import_object_for_all_wasi_versions returns.
WasiImportObject(keys) == [i \in 1..Cardinality(keys) |-> WasiFn(SetToSeq(keys)[i])]

----------------------------------------------------------------------------
\* Captured streams.

NoPipe == [buf |-> <<>>, tx |-> "absent", rx |-> "absent"]
NewPipe == [buf |-> <<>>, tx |-> "open", rx |-> "open"]

Close(end) == IF end = "open" THEN "closed" ELSE end

\* Every local of start going out of scope (return, `?` or unwinding).
DropLocals(p) ==
    [s \in Streams |-> [p[s] EXCEPT !.tx = Close(@), !.rx = Close(@)]]

\* std::str::from_utf8 as used by read_to_string.
IsCont(b) == b >= 128 /\ b <= 191

RECURSIVE Utf8Valid(_)
Utf8Valid(s) ==
    IF s = <<>> THEN TRUE
    ELSE LET b == Head(s)
             n == Len(s)
             Rest(k) == SubSeq(s, k + 1, n)
         IN  IF b < 128 THEN Utf8Valid(Rest(1))
             ELSE IF b >= 194 /\ b <= 223
                  THEN n >= 2 /\ IsCont(s[2]) /\ Utf8Valid(Rest(2))
             ELSE IF b >= 224 /\ b <= 239
                  THEN /\ n >= 3
                       /\ IsCont(s[2]) /\ IsCont(s[3])
                       /\ (b = 224 => s[2] >= 160)
                       /\ (b = 237 => s[2] <= 159)
                       /\ Utf8Valid(Rest(3))
             ELSE IF b >= 240 /\ b <= 244
                  THEN /\ n >= 4
                       /\ IsCont(s[2]) /\ IsCont(s[3]) /\ IsCont(s[4])
                       /\ (b = 240 => s[2] >= 144)
                       /\ (b = 244 => s[2] <= 143)
                       /\ Utf8Valid(Rest(4))
             ELSE FALSE

\* Read::read_to_string on the read end of a pipe whose write end is closed:
\* Ok(n) with the bytes appended to the string, or Err when they are not UTF-8.
read_to_string(p, str) ==
    IF Utf8Valid(p.buf)
    THEN [ok |-> TRUE, n |-> Len(p.buf), str |-> str \o p.buf]
    ELSE [ok |-> FALSE, n |-> 0, str |-> str]

----------------------------------------------------------------------------
\* Values.

NoResult == [kind |-> "none", msg |-> ""]
OkResult == [kind |-> "Ok", msg |-> ""]
ErrResult(m) == [kind |-> "Err", msg |-> m]

\* A line on the host's standard output; `whole` is FALSE for a line of which
\* only a proper, nonempty prefix was written.
Line(tag, bytes, msg) == [tag |-> tag, bytes |-> bytes, msg |-> msg, whole |-> TRUE]

Partial(l) == [l EXCEPT !.whole = FALSE]

\* The modules start may be built with.
ModuleImportSets == {{}, {K_a6, K_thread_spawn}, {K_fd_write}, {K_absent}}

Modules ==
    {[valid |-> FALSE, imports |-> {}, has_start |-> FALSE, has_memory |-> FALSE]}
    \cup
    {[valid |-> TRUE, imports |-> i, has_start |-> s, has_memory |-> m] :
        i \in ModuleImportSets, s \in BOOLEAN, m \in BOOLEAN}

Init ==
    /\ pc = "runtime_build"
    /\ wasm \in Modules
    /\ wasi_exports \in SUBSET WasiKeys
    /\ pipes = [s \in Streams |-> NoPipe]
    /\ imports = <<>>
    /\ import_object = <<>>
    /\ thread_status = "pending"
    /\ result = NoResult
    /\ std_out = <<>>
    /\ std_err = <<>>
    /\ output = <<>>
    /\ ret = "none"
    /\ main_ret = "none"
    /\ start_calls = <<>>
    /\ cleanup_calls = 0
    /\ import_calls = 0
    /\ written = [s \in Streams |-> <<>>]
    /\ failed_at = "none"
    /\ trace = <<>>

----------------------------------------------------------------------------
\* main and start, statement by statement.

\* main: let runtime = tokio::runtime::Builder::new_multi_thread()
\*           .enable_all().build()?;  let handle = runtime.handle().clone();
\* build() returns the runtime, returns an error (main returns it) or panics
\* (main unwinds); in the last two cases start is never entered.
runtime_build ==
    /\ pc = "runtime_build"
    /\ \E outcome \in {"Ok", "Err", "Panic"} :
        IF outcome = "Ok"
        THEN /\ pc' = "create_wasi_env"
             /\ UNCHANGED <<main_ret, failed_at>>
        ELSE /\ pc' = "exit"
             /\ main_ret' = outcome
             /\ failed_at' = "runtime_build"
    /\ UNCHANGED <<wasm, wasi_exports, pipes, imports, import_object,
                   thread_status, result, std_out, std_err, output, ret,
                   start_calls, cleanup_calls, import_calls, written, trace>>

\* The `?` operator: continue on Ok, return the error from start on Err.
Try_IgnoringError(ok, here, next) ==
    /\ pc' = next
    /\ trace' = Append(trace, here)
    /\ UNCHANGED <<ret, failed_at, pipes>>

Try(ok, here, next) ==
    IF ok
    THEN /\ pc' = next
         /\ trace' = Append(trace, here)
         /\ UNCHANGED <<ret, failed_at, pipes>>
    ELSE /\ pc' = "returned"
         /\ ret' = "Err"
         /\ failed_at' = here
         /\ pipes' = DropLocals(pipes)
         /\ UNCHANGED trace

\* let (builder, _stdin_tx, stdout_rx, stderr_rx) = create_wasi_env(..)?
create_wasi_env_DropStdinTx ==
    /\ pc = "create_wasi_env"
    /\ pipes' = [s \in Streams |->
                    IF s = "stdin" THEN [NewPipe EXCEPT !.tx = "closed"]
                    ELSE NewPipe]
    /\ pc' = "Module_new"
    /\ trace' = Append(trace, "create_wasi_env")
    /\ UNCHANGED <<wasm, wasi_exports, imports, import_object, thread_status,
                   result, std_out, std_err, output, ret, main_ret, start_calls,
                   cleanup_calls, import_calls, written, failed_at>>

create_wasi_env ==
    /\ pc = "create_wasi_env"
    /\ pipes' = [s \in Streams |-> NewPipe]
    /\ pc' = "Module_new"
    /\ trace' = Append(trace, "create_wasi_env")
    /\ UNCHANGED <<wasm, wasi_exports, imports, import_object, thread_status,
                   result, std_out, std_err, output, ret, main_ret, start_calls,
                   cleanup_calls, import_calls, written, failed_at>>

\* let module = Module::new(&store, include_bytes!(..))?
Module_new ==
    /\ pc = "Module_new"
    /\ Try(wasm.valid, "Module_new", "finalize")
    /\ UNCHANGED <<wasm, wasi_exports, imports, import_object, thread_status,
                   result, std_out, std_err, output, main_ret, start_calls,
                   cleanup_calls, import_calls, written>>

\* let mut wasi_env = builder.finalize(&mut store)?
finalize ==
    /\ pc = "finalize"
    /\ \E ok \in BOOLEAN : Try(ok, "finalize", "imports")
    /\ UNCHANGED <<wasm, wasi_exports, imports, import_object, thread_status,
                   result, std_out, std_err, output, main_ret, start_calls,
                   cleanup_calls, import_calls, written>>

\* let imports = imports! {..}; let extend = imports.into_iter().collect()
build_imports ==
    /\ pc = "imports"
    /\ imports' = CustomImports
    /\ pc' = "wasi_imports"
    /\ trace' = Append(trace, "imports")
    /\ UNCHANGED <<wasm, wasi_exports, pipes, import_object, thread_status,
                   result, std_out, std_err, output, ret, main_ret, start_calls,
                   cleanup_calls, import_calls, written, failed_at>>

\* let mut import_object = wasi_env.import_object_for_all_wasi_versions(..)?
import_object_for_all_wasi_versions ==
    /\ pc = "wasi_imports"
    /\ \E ok \in BOOLEAN :
        /\ Try(ok, "import_object_for_all_wasi_versions", "extend")
        /\ import_object' = IF ok THEN WasiImportObject(wasi_exports)
                            ELSE import_object
    /\ UNCHANGED <<wasm, wasi_exports, imports, thread_status,
                   result, std_out, std_err, output, main_ret, start_calls,
                   cleanup_calls, import_calls, written>>

\* import_object.extend(extend)
extend ==
    /\ pc = "extend"
    /\ import_object' = import_object_extend(import_object, imports)
    /\ pc' = "Instance_new"
    /\ trace' = Append(trace, "extend")
    /\ UNCHANGED <<wasm, wasi_exports, pipes, imports, thread_status,
                   result, std_out, std_err, output, ret, main_ret, start_calls,
                   cleanup_calls, import_calls, written, failed_at>>

\* let instance = Instance::new(&mut store, &module, &import_object)?
\* A module import absent from the table is a link error; instantiation can
\* fail for other reasons too.
Instance_new ==
    /\ pc = "Instance_new"
    /\ \E linked \in BOOLEAN :
        Try(linked /\ wasm.imports \subseteq Keys(import_object),
            "Instance_new", "set_status_running")
    /\ UNCHANGED <<wasm, wasi_exports, imports, import_object, thread_status,
                   result, std_out, std_err, output, main_ret, start_calls,
                   cleanup_calls, import_calls, written>>

\* wasi_env.data(&store).thread.set_status_running()
set_status_running_forgotten ==
    /\ pc = "set_status_running"
    /\ pc' = "initialize"
    /\ UNCHANGED <<wasm, wasi_exports, pipes, imports, import_object,
                   thread_status, trace,
                   result, std_out, std_err, output, ret, main_ret, start_calls,
                   cleanup_calls, import_calls, written, failed_at>>

set_status_running ==
    /\ pc = "set_status_running"
    /\ thread_status' = "running"
    /\ pc' = "initialize"
    /\ trace' = Append(trace, "set_status_running")
    /\ UNCHANGED <<wasm, wasi_exports, pipes, imports, import_object,
                   result, std_out, std_err, output, ret, main_ret, start_calls,
                   cleanup_calls, import_calls, written, failed_at>>

\* wasi_env.initialize(&mut store, instance.clone())?
initialize ==
    /\ pc = "initialize"
    /\ Try(wasm.has_memory, "initialize", "get_function")
    /\ UNCHANGED <<wasm, wasi_exports, imports, import_object, thread_status,
                   result, std_out, std_err, output, main_ret, start_calls,
                   cleanup_calls, import_calls, written>>

\* let start_func = instance.exports.get_function("_start").unwrap()
get_function_unwrap ==
    /\ pc = "get_function"
    /\ IF wasm.has_start
       THEN /\ pc' = "call"
            /\ trace' = Append(trace, "get_function")
            /\ UNCHANGED <<ret, failed_at, pipes>>
       ELSE /\ pc' = "returned"
            /\ ret' = "Panic"
            /\ failed_at' = "get_function"
            /\ pipes' = DropLocals(pipes)
            /\ UNCHANGED trace
    /\ UNCHANGED <<wasm, wasi_exports, imports, import_object, thread_status,
                   result, std_out, std_err, output, main_ret, start_calls,
                   cleanup_calls, import_calls, written>>

\* let result = start_func.call(&mut store, &[]): the guest starts running
call ==
    /\ pc = "call"
    /\ start_calls' = Append(start_calls,
                             [args |-> <<>>, status |-> thread_status])
    /\ pc' = "in_guest"
    /\ trace' = Append(trace, "call")
    /\ UNCHANGED <<wasm, wasi_exports, pipes, imports, import_object,
                   thread_status, result, std_out, std_err, output, ret,
                   main_ret, cleanup_calls, import_calls, written, failed_at>>

----------------------------------------------------------------------------
\* The guest, while start_func.call is running.

GuestWritten == Len(written["stdout"]) + Len(written["stderr"])

\* The guest writes one byte to its stdout or stderr (fd 1 or 2).
guest_write ==
    /\ pc = "in_guest"
    /\ GuestWritten < MaxWrites
    /\ \E s \in {"stdout", "stderr"}, b \in Bytes :
        /\ pipes[s].tx = "open"
        /\ pipes' = [pipes EXCEPT ![s].buf = Append(@, b)]
        /\ written' = [written EXCEPT ![s] = Append(@, b)]
    /\ UNCHANGED <<pc, wasm, wasi_exports, imports, import_object,
                   thread_status, result, std_out, std_err, output, ret,
                   main_ret, start_calls, cleanup_calls, import_calls,
                   failed_at, trace>>

\* println!: the line reaches the process's standard output and println!
\* returns ("printed"), or a write fails (ENOSPC, EPIPE, EFBIG, EAGAIN, ..) and
\* println! panics: with nothing of the line written ("panic"), with part of it
\* written ("partial"), or with the whole line left in the stdout buffer and
\* written when the process exits ("flushed").
PrintOutcomes == {"printed", "panic", "partial", "flushed"}

\* Standard output after a println! of line l with outcome p.  Nothing else
\* is printed between a panic and the exit of the process.
println(out, l, p) ==
    CASE p = "panic" -> out
      [] p = "partial" -> Append(out, Partial(l))
      [] OTHER -> Append(out, l)

\* The guest calls one of the functions it imports; a host closure of the
\* imports! table prints its line (println!) on the host's standard output.
\* A closure whose println! panics unwinds out of start_func.call and out of
\* start: `result` is never set and no later statement of start runs.
guest_call_import ==
    /\ pc = "in_guest"
    /\ import_calls < MaxImportCalls
    /\ \E k \in wasm.imports, v \in ArgValues, p \in PrintOutcomes :
        LET f == Lookup(import_object, k) IN
        /\ import_calls' = import_calls + 1
        /\ IF f.origin = "host"
           THEN /\ output' = println(output, Line(f.label, <<v>>, ""), p)
                /\ IF p = "printed"
                   THEN UNCHANGED <<pc, ret, failed_at, pipes>>
                   ELSE /\ pc' = "returned"
                        /\ ret' = "Panic"
                        /\ failed_at' = "println"
                        /\ pipes' = DropLocals(pipes)
           ELSE /\ p = "printed"
                /\ UNCHANGED <<output, pc, ret, failed_at, pipes>>
    /\ UNCHANGED <<wasm, wasi_exports, imports, import_object,
                   thread_status, result, std_out, std_err, main_ret,
                   start_calls, cleanup_calls, written, trace>>

\* The statement start continues with when the call has returned.
AfterCall_RetryOnTrap(r) ==
    IF r.kind = "Err" /\ Len(start_calls) < 2 THEN "call" ELSE "cleanup"

AfterCall(r) == "cleanup"

\* start_func.call returns Ok(..) or Err(trap) into `result`
guest_return ==
    /\ pc = "in_guest"
    /\ \E r \in {OkResult} \cup {ErrResult(m) : m \in TrapMessages} :
        /\ result' = r
        /\ pc' = AfterCall(r)
    /\ trace' = Append(trace, "call_returned")
    /\ UNCHANGED <<wasm, wasi_exports, pipes, imports, import_object,
                   thread_status, std_out, std_err, output, ret, main_ret,
                   start_calls, cleanup_calls, import_calls, written,
                   failed_at>>

----------------------------------------------------------------------------
\* Teardown and report.

\* WasiEnv cleanup on the main thread closes the guest's file descriptors:
\* the read end of stdin and the write ends of stdout and stderr.
CloseGuestEnds(p) ==
    [p EXCEPT !["stdin"].rx = Close(@),
              !["stdout"].tx = Close(@),
              !["stderr"].tx = Close(@)]

cleanup_OnSuccessOnly ==
    /\ pc = "cleanup"
    /\ IF result.kind = "Ok"
       THEN /\ cleanup_calls' = cleanup_calls + 1
            /\ trace' = Append(trace, "cleanup")
       ELSE UNCHANGED <<cleanup_calls, trace>>
    /\ pipes' = CloseGuestEnds(pipes)
    /\ pc' = "drain_stdout"
    /\ UNCHANGED <<wasm, wasi_exports, imports, import_object, thread_status,
                   result, std_out, std_err, output, ret, main_ret,
                   start_calls, import_calls, written, failed_at>>

\* wasi_env.cleanup(&mut store, None)
cleanup ==
    /\ pc = "cleanup"
    /\ cleanup_calls' = cleanup_calls + 1
    /\ pipes' = CloseGuestEnds(pipes)
    /\ pc' = "drain_stdout"
    /\ trace' = Append(trace, "cleanup")
    /\ UNCHANGED <<wasm, wasi_exports, imports, import_object, thread_status,
                   result, std_out, std_err, output, ret, main_ret,
                   start_calls, import_calls, written, failed_at>>

\* let mut s = String::default();
\* if rx.read_to_string(&mut s)? != 0 { println!("<tag>{s}") }
\* The read returns at end of stream, i.e. once the write end is closed; a
\* println! that cannot write panics and start unwinds after the read.
Drain_DropsReader(stream, tag, here, next) ==
    LET r == read_to_string(pipes[stream], <<>>)
        emptied == [pipes EXCEPT ![stream].buf = <<>>]
    IN  /\ pipes[stream].tx = "closed"
        /\ IF r.ok
           THEN /\ trace' = Append(trace, here)
                /\ \E p \in PrintOutcomes :
                    IF r.n # 0 /\ p # "printed"
                    THEN /\ pipes' = DropLocals(emptied)
                         /\ pc' = "returned"
                         /\ ret' = "Panic"
                         /\ failed_at' = "println"
                         /\ output' = println(output, Line(tag, r.str, ""), p)
                    ELSE /\ pipes' = [emptied EXCEPT ![stream].rx = Close(@)]
                         /\ output' = IF r.n # 0
                                      THEN Append(output, Line(tag, r.str, ""))
                                      ELSE output
                         /\ pc' = next
                         /\ UNCHANGED <<ret, failed_at>>
           ELSE /\ pipes' = DropLocals(emptied)
                /\ pc' = "returned"
                /\ ret' = "Err"
                /\ failed_at' = here
                /\ UNCHANGED <<output, trace>>

Drain(stream, tag, here, next) ==
    LET r == read_to_string(pipes[stream], <<>>)
        emptied == [pipes EXCEPT ![stream].buf = <<>>]
    IN  /\ pipes[stream].tx = "closed"
        /\ IF r.ok
           THEN /\ trace' = Append(trace, here)
                /\ \E p \in PrintOutcomes :
                    IF r.n # 0 /\ p # "printed"
                    THEN /\ pipes' = DropLocals(emptied)
                         /\ pc' = "returned"
                         /\ ret' = "Panic"
                         /\ failed_at' = "println"
                         /\ output' = println(output, Line(tag, r.str, ""), p)
                    ELSE /\ pipes' = emptied
                         /\ output' = IF r.n # 0
                                      THEN Append(output, Line(tag, r.str, ""))
                                      ELSE output
                         /\ pc' = next
                         /\ UNCHANGED <<ret, failed_at>>
           ELSE /\ pipes' = DropLocals(emptied)
                /\ pc' = "returned"
                /\ ret' = "Err"
                /\ failed_at' = here
                /\ UNCHANGED <<output, trace>>

drain_stdout ==
    /\ pc = "drain_stdout"
    /\ Drain("stdout", "Std out: ", "drain_stdout", "drain_stderr")
    /\ std_out' = read_to_string(pipes["stdout"], <<>>).str
    /\ UNCHANGED <<wasm, wasi_exports, imports, import_object, thread_status,
                   result, std_err, main_ret, start_calls, cleanup_calls,
                   import_calls, written>>

drain_stderr ==
    /\ pc = "drain_stderr"
    /\ Drain("stderr", "Std err: ", "drain_stderr", "report")
    /\ std_err' = read_to_string(pipes["stderr"], <<>>).str
    /\ UNCHANGED <<wasm, wasi_exports, imports, import_object, thread_status,
                   result, std_out, main_ret, start_calls, cleanup_calls,
                   import_calls, written>>

\* The status line of `match result { .. }`.
StatusLine(r) ==
    IF r.kind = "Ok" THEN Line("Success", <<>>, "")
    ELSE Line("Runtime Error: ", <<>>, r.msg)

\* match result { Ok(_) => println!("Success"), Err(err) => println!(..) }
\* Ok(())
\* A println! that cannot write panics and start unwinds; the status line
\* may still be on standard output, in part or in full.
report ==
    /\ pc = "report"
    /\ \E p \in PrintOutcomes :
        /\ output' = println(output, StatusLine(result), p)
        /\ IF p = "printed"
           THEN /\ ret' = "Ok"
                /\ trace' = Append(trace, "report")
                /\ UNCHANGED failed_at
           ELSE /\ ret' = "Panic"
                /\ failed_at' = "println"
                /\ UNCHANGED trace
    /\ pipes' = DropLocals(pipes)
    /\ pc' = "returned"
    /\ UNCHANGED <<wasm, wasi_exports, imports, import_object, thread_status,
                   result, std_out, std_err, main_ret, start_calls,
                   cleanup_calls, import_calls, written>>

\* main: start(handle)?; Ok(())  -- a panic of start unwinds through main
main_return ==
    /\ pc = "returned"
    /\ main_ret' = ret
    /\ pc' = "exit"
    /\ UNCHANGED <<wasm, wasi_exports, pipes, imports, import_object,
                   thread_status, result, std_out, std_err, output, ret,
                   start_calls, cleanup_calls, import_calls, written,
                   failed_at, trace>>

Next ==
    \/ runtime_build
    \/ create_wasi_env
    \/ Module_new
    \/ finalize
    \/ build_imports
    \/ import_object_for_all_wasi_versions
    \/ extend
    \/ Instance_new
    \/ set_status_running
    \/ initialize
    \/ get_function_unwrap
    \/ call
    \/ guest_write
    \/ guest_call_import
    \/ guest_return
    \/ cleanup
    \/ drain_stdout
    \/ drain_stderr
    \/ report
    \/ main_return

Spec == Init /\ [][Next]_vars

\* The statements of start and main run on one host thread, one after the
\* other: a statement that can execute does.  Nothing makes the guest return.
HostStep ==
    \/ runtime_build
    \/ create_wasi_env
    \/ Module_new
    \/ finalize
    \/ build_imports
    \/ import_object_for_all_wasi_versions
    \/ extend
    \/ Instance_new
    \/ set_status_running
    \/ initialize
    \/ get_function_unwrap
    \/ call
    \/ cleanup
    \/ drain_stdout
    \/ drain_stderr
    \/ report
    \/ main_return

FairSpec == Spec /\ WF_vars(HostStep)

----------------------------------------------------------------------------
\* Properties.

Events == {trace[i] : i \in 1..Len(trace)}

Count(ev) == Cardinality({i \in 1..Len(trace) : trace[i] = ev})

\* Position of the first occurrence of an event, 0 when it has not happened.
Pos(ev) ==
    IF ev \in Events
    THEN CHOOSE i \in 1..Len(trace) :
            trace[i] = ev /\ \A j \in 1..(i - 1) : trace[j] # ev
    ELSE 0

Before(a, b) == Pos(a) > 0 /\ Pos(a) < Pos(b)

StatusTags == {"Success", "Runtime Error: "}

\* Status lines and captured text on standard output, written in full.
StatusLines ==
    {i \in 1..Len(output) : output[i].tag \in StatusTags /\ output[i].whole}

Printed(tag) ==
    {output[i].bytes :
        i \in {j \in 1..Len(output) : output[j].tag = tag /\ output[j].whole}}

Terminated == pc = "exit"

\* No println! of the run has failed: the process's standard output takes
\* every line written to it.
StdoutWritable == failed_at # "println"

\* C1: once the call of _start has returned (Ok or trap), wasi_env.cleanup is
\* invoked exactly once, after the return: never twice, never before the
\* call has returned, and never skipped once start has moved past line 126.
C1_CleanupExactlyOnce ==
    /\ cleanup_calls <= 1
    /\ cleanup_calls = Count("cleanup")
    /\ (cleanup_calls = 1 =>
            result # NoResult /\ Before("call_returned", "cleanup"))
    /\ (result # NoResult /\ pc # "cleanup" => cleanup_calls = 1)

C1_Witness ==
    /\ Terminated
    /\ result.kind = "Err"
    /\ cleanup_calls = 1
    /\ Len(start_calls) = 1

\* C2: whenever the call of _start returned a trap, start performs cleanup
\* and both drains, prints the runtime error and returns Ok, and so does main
\* (stated for the runs in which standard output is writable).
C2_TrapNotEscalated ==
    (Terminated /\ result.kind = "Err" /\ StdoutWritable) =>
        /\ ret = "Ok"
        /\ main_ret = "Ok"
        /\ cleanup_calls = 1
        /\ {"drain_stdout", "drain_stderr"} \subseteq Events
        /\ \E i \in 1..Len(output) : output[i] = StatusLine(result)

\* C3: a failure of Module::new, builder.finalize,
\* import_object_for_all_wasi_versions or Instance::new makes start (and main)
\* return the error; _start is not invoked and no status line is printed.
SetupSteps ==
    {"Module_new", "finalize", "import_object_for_all_wasi_versions",
     "Instance_new"}

Unlinkable == "extend" \in Events /\ ~(wasm.imports \subseteq Keys(import_object))

C3_SetupFailureEscalated ==
    /\ (failed_at \in SetupSteps =>
            /\ pc \in {"returned", "exit"}
            /\ ret = "Err"
            /\ (Terminated => main_ret = "Err")
            /\ start_calls = <<>>
            /\ StatusLines = {})
    /\ (~wasm.valid \/ Unlinkable =>
            /\ start_calls = <<>>
            /\ StatusLines = {}
            /\ (Terminated /\ ret # "none" =>
                    failed_at \in SetupSteps /\ main_ret = "Err"))

C3_Witness ==
    /\ Terminated
    /\ failed_at = "Instance_new"
    /\ Unlinkable
    /\ main_ret = "Err"

\* C4: the thread status is set to running only after Instance::new has
\* succeeded and strictly before _start is invoked; every invocation of
\* _start finds the status running.
C4_RunningBeforeCall ==
    /\ \A i \in 1..Len(start_calls) : start_calls[i].status = "running"
    /\ (thread_status = "running" =>
            Before("Instance_new", "set_status_running"))
    /\ ("call" \in Events =>
            /\ Before("Instance_new", "set_status_running")
            /\ Before("set_status_running", "call"))
    /\ (pc = "in_guest" => thread_status = "running")

C4_Witness ==
    /\ pc = "in_guest"
    /\ thread_status = "running"
    /\ Len(start_calls) = 1
    /\ GuestWritten > 0

\* C5: a stream is drained only after cleanup (stdout before stderr), the
\* status is reported only after both drains, and in every execution in which
\* the call of _start returned, trap or not, cleanup, then the stdout drain,
\* then the stderr drain all take place (stated for the runs in which
\* standard output is writable).
C5_CleanupThenDrainsThenReport ==
    /\ ("drain_stdout" \in Events \/ failed_at = "drain_stdout" =>
            Before("call_returned", "cleanup"))
    /\ ("drain_stdout" \in Events => Before("cleanup", "drain_stdout"))
    /\ ("drain_stderr" \in Events \/ failed_at = "drain_stderr" =>
            Before("cleanup", "drain_stdout"))
    /\ ("drain_stderr" \in Events => Before("drain_stdout", "drain_stderr"))
    /\ ("report" \in Events => Before("drain_stderr", "report"))
    /\ (Terminated /\ result # NoResult /\ StdoutWritable =>
            /\ Before("call_returned", "cleanup")
            /\ Before("cleanup", "drain_stdout")
            /\ Before("drain_stdout", "drain_stderr"))

\* C6: cleanup is invoked even when the entry-point step panics, the unwrap
\* of a missing `_start` export included.
C6_CleanupOnPanic ==
    ret = "Panic" => cleanup_calls = 1

\* C7: once the call of _start has returned, the final status is reported
\* exactly once whatever the drains do: the trap diagnostic on a trap; the
\* captured stdout and stderr in full, then "Success", on success (stated for
\* the runs in which standard output is writable).
C7_StatusAlwaysReported ==
    (Terminated /\ result # NoResult /\ StdoutWritable) =>
        /\ Cardinality(StatusLines) = 1
        /\ output[Len(output)] = StatusLine(result)
        /\ (result.kind = "Ok" /\ written["stdout"] # <<>> =>
                Printed("Std out: ") = {written["stdout"]})
        /\ (result.kind = "Ok" /\ written["stderr"] # <<>> =>
                Printed("Std err: ") = {written["stderr"]})

\* C8: after the call and cleanup, each drain yields exactly the bytes the
\* guest wrote to that stream, in order; a stream never written to yields a
\* zero-length read and no captured text is printed for it (stated for the
\* runs in which standard output is writable).
C8_DrainYieldsWritten ==
    (pc \in {"returned", "exit"} /\ result # NoResult /\ StdoutWritable) =>
        /\ std_out = written["stdout"]
        /\ std_err = written["stderr"]
        /\ Printed("Std out: ") =
                IF written["stdout"] = <<>> THEN {} ELSE {written["stdout"]}
        /\ Printed("Std err: ") =
                IF written["stderr"] = <<>> THEN {} ELSE {written["stderr"]}

\* C9: after import_object.extend(extend) the table holds the custom binding
\* for every key of the custom table, the WASI binding for every key only
\* WASI provides, nothing else, and each key once.
C9_MergedImportTable ==
    "extend" \in Events =>
        /\ \A i \in 1..Len(imports) :
                /\ Has(import_object, imports[i].key)
                /\ Lookup(import_object, imports[i].key) = imports[i].ext
        /\ \A k \in wasi_exports \ Keys(imports) :
                /\ Has(import_object, k)
                /\ Lookup(import_object, k) = WasiFn(k).ext
        /\ Keys(import_object) = Keys(imports) \cup wasi_exports
        /\ \A i, j \in 1..Len(import_object) :
                import_object[i].key = import_object[j].key => i = j

C9_Witness ==
    /\ "extend" \in Events
    /\ wasi_exports = {K_thread_spawn, K_fd_write}
    /\ Lookup(import_object, K_thread_spawn).origin = "host"
    /\ Lookup(import_object, K_fd_write).origin = "wasi"
    /\ Len(import_object) = 7

\* C10 as stated: every execution of start that gets past linking invokes
\* _start exactly once.
C10_ExactlyOncePastLinking ==
    (Terminated /\ "Instance_new" \in Events) => Len(start_calls) = 1

\* C10 amended: _start is invoked at most once, with no arguments, never
\* again after a trap and never after cleanup; exactly once in every
\* execution in which wasi_env.initialize and the lookup of the `_start`
\* export succeed too, and not at all when one of them fails.
C10_AtMostOnceOnceReached ==
    /\ Len(start_calls) <= 1
    /\ Len(start_calls) = Count("call")
    /\ \A i \in 1..Len(start_calls) : start_calls[i].args = <<>>
    /\ ("cleanup" \in Events => Count("call") = 1 /\ Before("call", "cleanup"))
    /\ (cleanup_calls > 0 => pc \notin {"call", "in_guest"})
    /\ ("get_function" \in Events /\ pc # "call" => Len(start_calls) = 1)
    /\ (failed_at \in {"initialize", "get_function"} => Len(start_calls) = 0)

C10_Witness ==
    /\ Terminated
    /\ "Instance_new" \in Events
    /\ Len(start_calls) = 1
    /\ start_calls[1].args = <<>>
    /\ result.kind = "Err"
    /\ ret = "Ok"

----------------------------------------------------------------------------
\* Stream ends.  The host holds _stdin_tx, stdout_rx and stderr_rx; the guest
\* environment holds stdin_rx and the write ends stdout and stderr.

HostEnds == {pipes["stdin"].tx, pipes["stdout"].rx, pipes["stderr"].rx}

GuestEnds == {pipes["stdin"].rx, pipes["stdout"].tx, pipes["stderr"].tx}

AllEnds == HostEnds \cup GuestEnds

Drained == {"cleanup", "drain_stdout", "drain_stderr"} \subseteq Events

\* A read of the guest on its stdin completes when there are bytes to read or
\* the write end is closed (end of stream).
StdinReadable == pipes["stdin"].buf # <<>> \/ pipes["stdin"].tx = "closed"

\* C11 as stated: the pairs exist before builder.finalize, and on every path
\* through start no stream end is closed before cleanup has been invoked and
\* stdout and stderr have been drained.
C11_NoEndClosedBeforeDrain ==
    /\ ("finalize" \in Events => "absent" \notin AllEnds)
    /\ ("closed" \in AllEnds => Drained)

\* C11 amended: the pairs exist before builder.finalize; the ends the host
\* holds are closed only when start returns, and where start returns Ok that
\* is after cleanup and both drains; the ends the guest holds are closed by
\* cleanup, before the drains, or when start returns without reaching
\* cleanup; every end is closed once start has returned, on every path.
C11_EndsClosedAtCleanupOrReturn ==
    /\ ("finalize" \in Events =>
            Before("create_wasi_env", "finalize") /\ "absent" \notin AllEnds)
    /\ ("closed" \in HostEnds => ret # "none")
    /\ ("closed" \in GuestEnds => "cleanup" \in Events \/ ret # "none")
    /\ ("cleanup" \in Events => GuestEnds = {"closed"})
    /\ (ret = "Ok" => Drained)
    /\ (ret # "none" => AllEnds = {"closed"})

C11_Witness ==
    /\ Terminated
    /\ ret = "Ok"
    /\ Drained
    /\ AllEnds = {"closed"}
    /\ written["stdout"] # <<>>
    /\ written["stderr"] # <<>>

\* Each read-to-end starts with the write end of its stream already closed.
WriteEndClosedAtDrain ==
    /\ (pc = "drain_stdout" => pipes["stdout"].tx = "closed")
    /\ (pc = "drain_stderr" => pipes["stderr"].tx = "closed")

\* C12: once the call of _start has returned, the host is never stuck before
\* its final status report: cleanup, the read-to-end of stdout, that of
\* stderr and the report can each execute in turn until the status is printed
\* (stated for the runs in which standard output is writable).
C12_DrainsReachReport ==
    result # NoResult /\ StdoutWritable =>
        \/ "report" \in Events
        \/ ENABLED (cleanup \/ drain_stdout \/ drain_stderr \/ report)

\* C13: the host never writes to stdin and holds _stdin_tx open from
\* create_wasi_env until start returns; while the guest runs, its stdin is
\* empty and not at end of stream, so a read on it cannot complete.
C13_StdinOpenAndEmpty ==
    /\ pipes["stdin"].buf = <<>>
    /\ written["stdin"] = <<>>
    /\ (pipes["stdin"].tx = "open" <=>
            "create_wasi_env" \in Events /\ ret = "none")
    /\ (pipes["stdin"].tx = "closed" => ret # "none")
    /\ (pc = "in_guest" => ~StdinReadable /\ pipes["stdin"].rx = "open")

C13_Witness ==
    /\ pc = "in_guest"
    /\ pipes["stdin"].tx = "open"
    /\ pipes["stdin"].buf = <<>>
    /\ written["stdout"] # <<>>
    /\ import_calls > 0

====
